---- MODULE Spec2Model ----
(***************************************************************************)
(* Model of vtk_utils/main_dataformat.py: extract_vtk_folders_from_tar     *)
(* streams the members of a gzip'ed tar archive, accumulates the decoded   *)
(* frames of the open experiment in temporal_sequence and flushes them,    *)
(* grouped by sequence length, into the ordered dictionary all_sample.     *)
(*                                                                         *)
(* A frame decoded from the k-th member of the archive is represented by   *)
(* the number k, so that loss, duplication and reordering are observable.  *)
(***************************************************************************)
EXTENDS Integers, Sequences, FiniteSets, TLC

\* ------------------------------------------------------------------ bounds
MaxLen == 4

\* longest archive the dataset-generation specification draws from
MaxGenLen == 7

\* ------------------------------------------------------------ archive data
\* A member of the archive, by the three things the loop inspects:
\* member.isdir(), member.isfile(), ".vti." in member.name; "ok" is whether
\* the decoder can read the member's bytes.
DirEntry  == [isdir |-> TRUE,  isfile |-> FALSE, vti |-> FALSE, ok |-> FALSE]
VtiEntry  == [isdir |-> FALSE, isfile |-> TRUE,  vti |-> TRUE,  ok |-> TRUE]
BadEntry  == [isdir |-> FALSE, isfile |-> TRUE,  vti |-> TRUE,  ok |-> FALSE]
TxtEntry  == [isdir |-> FALSE, isfile |-> TRUE,  vti |-> FALSE, ok |-> FALSE]
LinkEntry == [isdir |-> FALSE, isfile |-> FALSE, vti |-> TRUE,  ok |-> FALSE]
\* a decodable file whose name lacks the ".vti." marker
VtkEntry  == [isdir |-> FALSE, isfile |-> TRUE,  vti |-> FALSE, ok |-> TRUE]

Entries == {DirEntry, VtiEntry, BadEntry, TxtEntry, LinkEntry, VtkEntry}

Archives == UNION {[1..n -> Entries] : n \in 0..MaxLen}

\* The value process_file returns when the member could not be decoded.
None == 0

\* The exceptions the stream can raise, by the except clause they reach.
ErrorKinds == {"EOFError", "ReadError", "Exception"}

\* a read number no stream reaches: the stream raises nowhere
NoFault == MaxLen + 2

VARIABLES
    archive,             \* the members of the archive, in stream order
    faultAt,             \* the read that raises: 0 = tarfile.open, k = member k, NoFault
    faultKind,           \* the exception raised there
    pc,                  \* position in extract_vtk_folders_from_tar
    pos,                 \* number of members consumed so far
    temporal_sequence,   \* frames of the open experiment
    all_sample,          \* ordered dict: sequence of [key, val] items
    tar_open,            \* whether the archive handle is open
    exc,                 \* the exception being handled, or "none"
    outcome,             \* "running", "returned" or "raised"
    slicing,             \* generate_datasets_from_sample_list: slicing
    generate_3D,         \* generate_datasets_from_sample_list: generate_3D
    gen_idx,             \* items of all_samples.items() already iterated
    file_paths,          \* the list of paths being built
    files,               \* the files written, in the order they were written
    gen_outcome          \* "none", "returned" or "raised"

genvars == <<slicing, generate_3D, gen_idx, file_paths, files, gen_outcome>>

vars == <<archive, faultAt, faultKind, pc, pos, temporal_sequence, all_sample,
          tar_open, exc, outcome, slicing, generate_3D, gen_idx, file_paths,
          files, gen_outcome>>

\* ------------------------------------------------------ ordered dictionary
Keys(d) == {d[i].key : i \in 1..Len(d)}

IndexOf(d, k) == CHOOSE i \in 1..Len(d) : d[i].key = k

AppendTo_front(d, k, s) ==
    IF k \in Keys(d)
    THEN [d EXCEPT ![IndexOf(d, k)].val = <<s>> \o @]
    ELSE Append(d, [key |-> k, val |-> <<s>>])

\* d[k].append(s), creating d[k] = [] first when k is absent
AppendTo(d, k, s) ==
    IF k \in Keys(d)
    THEN [d EXCEPT ![IndexOf(d, k)].val = Append(@, s)]
    ELSE Append(d, [key |-> k, val |-> <<s>>])

\* ------------------------------------------------- vtk_tar_utils (imported)
process_file(member, k) == IF member.ok THEN k ELSE None

process_directory_unguarded(ts, d) == <<<<>>, AppendTo(d, Len(ts), ts)>>

process_directory(ts, d) ==
    IF ts = <<>> THEN <<ts, d>> ELSE <<<<>>, AppendTo(d, Len(ts), ts)>>

\* ------------------------------------------------------- the loop's branches
IsDirMember(m) == m.isdir

IsFrameMember_nopattern(m) == m.isfile

IsFrameMember(m) == m.isfile /\ m.vti

DirBranch_noreset(ts, d) ==
    IF ts # <<>> THEN <<ts, process_directory(ts, d)[2]>> ELSE <<ts, d>>

DirBranch_noflush(ts, d) == <<ts, d>>

DirBranch(ts, d) ==
    IF ts # <<>> THEN process_directory(ts, d) ELSE <<ts, d>>

FileBranch_prepend(ts, n_instance) ==
    IF n_instance # None THEN <<n_instance>> \o ts ELSE ts

FileBranch_noguard(ts, n_instance) == Append(ts, n_instance)

FileBranch(ts, n_instance) ==
    IF n_instance # None THEN Append(ts, n_instance) ELSE ts

EndFlush_skip(ts, d) == <<ts, d>>

EndFlush(ts, d) ==
    IF ts # <<>> THEN process_directory(ts, d) ELSE <<ts, d>>

\* ------------------------------------------------------ exception handling
WithExit_leak(open) == open

\* TarFile.__exit__: the handle is closed however the with block is left
WithExit(open) == FALSE

ExceptClause_narrow(kind) ==
    CASE kind = "EOFError"  -> "eof"
      [] kind = "ReadError" -> "none"
      [] OTHER              -> "generic"

ExceptClause_nogeneric(kind) ==
    CASE kind = "EOFError"  -> "eof"
      [] kind = "ReadError" -> "read"
      [] OTHER              -> "none"

ExceptClause_noeof(kind) ==
    CASE kind = "EOFError"  -> "none"
      [] kind = "ReadError" -> "read"
      [] OTHER              -> "generic"

ExceptClause_readaseof(kind) ==
    CASE kind = "EOFError"  -> "eof"
      [] kind = "ReadError" -> "eof"
      [] OTHER              -> "generic"

\* the except clause an exception reaches, in the order they are written
ExceptClause(kind) ==
    CASE kind = "EOFError"  -> "eof"
      [] kind = "ReadError" -> "read"
      [] OTHER              -> "generic"

EOFHandler_noflush(ts, d) == <<ts, d>>

EOFHandler(ts, d) == process_directory(ts, d)

\* ------------------------------------------------------------------- Init
Init ==
    /\ archive \in Archives
    /\ \/ faultAt = NoFault /\ faultKind = "none"
       \/ faultAt \in 0..(Len(archive) + 1) /\ faultKind \in ErrorKinds
    /\ pc = "start"
    /\ pos = 0
    /\ temporal_sequence = <<>>
    /\ all_sample = <<>>
    /\ tar_open = FALSE
    /\ exc = "none"
    /\ outcome = "running"
    /\ slicing = TRUE
    /\ generate_3D = FALSE
    /\ gen_idx = 0
    /\ file_paths = <<>>
    /\ files = <<>>
    /\ gen_outcome = "none"

\* ---------------------------------------------------------------- actions
\* tarfile.open(tar_path, "r:gz") succeeds
Open ==
    /\ pc = "start"
    /\ faultAt # 0
    /\ tar_open' = TRUE
    /\ pc' = "loop"
    /\ UNCHANGED genvars
    /\ UNCHANGED <<archive, faultAt, faultKind, pos, temporal_sequence,
                   all_sample, exc, outcome>>

\* tarfile.open raises: no handle was ever bound
OpenFails ==
    /\ pc = "start"
    /\ faultAt = 0
    /\ exc' = faultKind
    /\ pc' = "except"
    /\ UNCHANGED genvars
    /\ UNCHANGED <<archive, faultAt, faultKind, pos, temporal_sequence,
                   all_sample, tar_open, outcome>>

CanRead == pc = "loop" /\ faultAt # pos + 1 /\ pos < Len(archive)

\* member.isdir()
StepDir ==
    /\ CanRead
    /\ IsDirMember(archive[pos + 1])
    /\ LET r == DirBranch(temporal_sequence, all_sample)
       IN  temporal_sequence' = r[1] /\ all_sample' = r[2]
    /\ pos' = pos + 1
    /\ UNCHANGED genvars
    /\ UNCHANGED <<archive, faultAt, faultKind, pc, tar_open, exc, outcome>>

\* member.isfile() and ".vti." in member.name
StepFile ==
    /\ CanRead
    /\ ~IsDirMember(archive[pos + 1])
    /\ IsFrameMember(archive[pos + 1])
    /\ temporal_sequence' =
          FileBranch(temporal_sequence, process_file(archive[pos + 1], pos + 1))
    /\ pos' = pos + 1
    /\ UNCHANGED genvars
    /\ UNCHANGED <<archive, faultAt, faultKind, pc, all_sample, tar_open,
                   exc, outcome>>

\* no branch of the if/elif chain applies
StepIgnored ==
    /\ CanRead
    /\ ~IsDirMember(archive[pos + 1])
    /\ ~IsFrameMember(archive[pos + 1])
    /\ pos' = pos + 1
    /\ UNCHANGED genvars
    /\ UNCHANGED <<archive, faultAt, faultKind, pc, temporal_sequence,
                   all_sample, tar_open, exc, outcome>>

\* reading member pos+1 raises inside the with block
StepRaise ==
    /\ pc = "loop"
    /\ faultAt = pos + 1
    /\ tar_open' = WithExit(tar_open)
    /\ exc' = faultKind
    /\ pc' = "except"
    /\ UNCHANGED genvars
    /\ UNCHANGED <<archive, faultAt, faultKind, pos, temporal_sequence,
                   all_sample, outcome>>

\* tar.next() returns None: the loop and the with block end
EndOfStream ==
    /\ pc = "loop"
    /\ faultAt # pos + 1
    /\ pos = Len(archive)
    /\ tar_open' = WithExit(tar_open)
    /\ pc' = "after_with"
    /\ UNCHANGED genvars
    /\ UNCHANGED <<archive, faultAt, faultKind, pos, temporal_sequence,
                   all_sample, exc, outcome>>

\* "Process the last sequence after exiting the loop"
FinalFlush ==
    /\ pc = "after_with"
    /\ LET r == EndFlush(temporal_sequence, all_sample)
       IN  temporal_sequence' = r[1] /\ all_sample' = r[2]
    /\ pc' = "return"
    /\ UNCHANGED genvars
    /\ UNCHANGED <<archive, faultAt, faultKind, pos, tar_open, exc, outcome>>

\* except EOFError
HandleEOF ==
    /\ pc = "except"
    /\ ExceptClause(exc) = "eof"
    /\ LET r == EOFHandler(temporal_sequence, all_sample)
       IN  temporal_sequence' = r[1] /\ all_sample' = r[2]
    /\ pc' = "return"
    /\ UNCHANGED genvars
    /\ UNCHANGED <<archive, faultAt, faultKind, pos, tar_open, exc, outcome>>

\* except tarfile.ReadError
HandleReadError ==
    /\ pc = "except"
    /\ ExceptClause(exc) = "read"
    /\ pc' = "return"
    /\ UNCHANGED genvars
    /\ UNCHANGED <<archive, faultAt, faultKind, pos, temporal_sequence,
                   all_sample, tar_open, exc, outcome>>

\* except Exception; an exception no clause names leaves the function
HandleException ==
    /\ pc = "except"
    /\ ExceptClause(exc) \notin {"eof", "read"}
    /\ IF ExceptClause(exc) = "generic"
       THEN pc' = "return" /\ outcome' = outcome
       ELSE pc' = "done" /\ outcome' = "raised"
    /\ UNCHANGED genvars
    /\ UNCHANGED <<archive, faultAt, faultKind, pos, temporal_sequence,
                   all_sample, tar_open, exc>>

\* return all_sample
Return ==
    /\ pc = "return"
    /\ pc' = "done"
    /\ outcome' = "returned"
    /\ UNCHANGED genvars
    /\ UNCHANGED <<archive, faultAt, faultKind, pos, temporal_sequence,
                   all_sample, tar_open, exc>>

\* ------------------------------------------------------ dataset generation
OutputPath == "out"

OutputName == "base"

\* vtk_data_utils: the array a frame converts to, whole or as its top slice
Convert3D(vtkimage) == [frame |-> vtkimage, dims |-> 3]

Convert2D(vtkimage) == [frame |-> vtkimage, dims |-> 2]

Filename_nolen(sample_count) == [name |-> OutputName, len |-> 0]

\* f"{output_name}_len_{sample_count}"
Filename(sample_count) == [name |-> OutputName, len |-> sample_count]

\* os.path.join(output_path, f"{output_name}_3D.h5"), and likewise _2D.h5
DataPath(filename, variant) ==
    [dir |-> OutputPath, stem |-> filename, variant |-> variant, ext |-> "h5"]

RECURSIVE Flatten_reversed(_)
Flatten_reversed(data_lists) ==
    IF data_lists = <<>> THEN <<>>
    ELSE Flatten_reversed(Tail(data_lists)) \o Head(data_lists)

RECURSIVE Flatten_impl(_)
Flatten_impl(data_lists) ==
    IF data_lists = <<>> THEN <<>>
    ELSE Head(data_lists) \o Flatten_impl(Tail(data_lists))

\* [item for sublist in data_lists for item in sublist]
Flatten(data_lists) == Flatten_impl(data_lists)

\* save_data_to_hdf5: one dataset "images" holding the stacked arrays
SavedFile(images, output_file) ==
    [path |-> output_file, images |-> images, complete |-> TRUE]

generate_datasets_coupled(data_list, filename, slice, gen3D) ==
    LET images_3D_list == [i \in 1..Len(data_list) |-> Convert3D(data_list[i])]
        images_2D_list == [i \in 1..Len(data_list) |-> Convert2D(data_list[i])]
        datapath_3D == IF gen3D /\ slice THEN <<DataPath(filename, "3D")>> ELSE <<>>
        datapath_2D == IF slice THEN <<DataPath(filename, "2D")>> ELSE <<>>
    IN  [writes |->
            (IF gen3D /\ slice
             THEN <<SavedFile(images_3D_list, datapath_3D[1])>> ELSE <<>>)
            \o (IF slice THEN <<SavedFile(images_2D_list, datapath_2D[1])>> ELSE <<>>),
         datapath_2D |-> datapath_2D,
         datapath_3D |-> datapath_3D]

\* generate_datasets: the files it writes, in the order it writes them (3D
\* before 2D), and the pair it returns; an unset path is the empty sequence
generate_datasets(data_list, filename, slice, gen3D) ==
    LET images_3D_list == [i \in 1..Len(data_list) |-> Convert3D(data_list[i])]
        images_2D_list == [i \in 1..Len(data_list) |-> Convert2D(data_list[i])]
        datapath_3D == IF gen3D THEN <<DataPath(filename, "3D")>> ELSE <<>>
        datapath_2D == IF slice THEN <<DataPath(filename, "2D")>> ELSE <<>>
    IN  [writes |->
            (IF gen3D THEN <<SavedFile(images_3D_list, datapath_3D[1])>> ELSE <<>>)
            \o (IF slice THEN <<SavedFile(images_2D_list, datapath_2D[1])>> ELSE <<>>),
         datapath_2D |-> datapath_2D,
         datapath_3D |-> datapath_3D]

\* if datapath_2D: append; if datapath_3D: append
AppendPaths(paths, r) == paths \o r.datapath_2D \o r.datapath_3D

\* one iteration of the loop over all_samples.items()
BucketResult(item, slice, gen3D) ==
    generate_datasets(Flatten(item.val), Filename(item.key), slice, gen3D)

AfterWriteError_rollback(written) == <<>>

\* nothing catches the exception of a write: what was written stays
AfterWriteError(written) == written

\* main: sample_list is handed to generate_datasets_from_sample_list
MainGenerate ==
    /\ pc = "done"
    /\ outcome = "returned"
    /\ pc' = "gen"
    /\ UNCHANGED genvars
    /\ UNCHANGED <<archive, faultAt, faultKind, pos, temporal_sequence,
                   all_sample, tar_open, exc, outcome>>

\* one item of all_samples.items(): both writes succeed
GenBucket ==
    /\ pc = "gen"
    /\ gen_idx < Len(all_sample)
    /\ LET r == BucketResult(all_sample[gen_idx + 1], slicing, generate_3D)
       IN  /\ files' = files \o r.writes
           /\ file_paths' = AppendPaths(file_paths, r)
    /\ gen_idx' = gen_idx + 1
    /\ UNCHANGED <<slicing, generate_3D, gen_outcome>>
    /\ UNCHANGED <<archive, faultAt, faultKind, pc, pos, temporal_sequence,
                   all_sample, tar_open, exc, outcome>>

\* one item of all_samples.items(): its j-th write raises, leaving the file
\* it was writing absent or incomplete
GenBucketFails ==
    /\ pc = "gen"
    /\ gen_idx < Len(all_sample)
    /\ LET r == BucketResult(all_sample[gen_idx + 1], slicing, generate_3D)
       IN  \E j \in 1..Len(r.writes), partial \in BOOLEAN :
              files' = AfterWriteError(files \o SubSeq(r.writes, 1, j - 1))
                       \o (IF partial
                           THEN <<[r.writes[j] EXCEPT !.images = <<>>,
                                                      !.complete = FALSE]>>
                           ELSE <<>>)
    /\ gen_outcome' = "raised"
    /\ pc' = "gen_done"
    /\ UNCHANGED <<slicing, generate_3D, gen_idx, file_paths>>
    /\ UNCHANGED <<archive, faultAt, faultKind, pos, temporal_sequence,
                   all_sample, tar_open, exc, outcome>>

\* return file_paths
GenReturn ==
    /\ pc = "gen"
    /\ gen_idx = Len(all_sample)
    /\ gen_outcome' = "returned"
    /\ pc' = "gen_done"
    /\ UNCHANGED <<slicing, generate_3D, gen_idx, file_paths, files>>
    /\ UNCHANGED <<archive, faultAt, faultKind, pos, temporal_sequence,
                   all_sample, tar_open, exc, outcome>>

Next ==
    \/ Open
    \/ OpenFails
    \/ StepDir
    \/ StepFile
    \/ StepIgnored
    \/ StepRaise
    \/ EndOfStream
    \/ FinalFlush
    \/ HandleEOF
    \/ HandleReadError
    \/ HandleException
    \/ Return
    \/ MainGenerate
    \/ GenBucket
    \/ GenBucketFails
    \/ GenReturn

Spec == Init /\ [][Next]_vars

\* ---------------------------- generate_datasets_from_sample_list on its own
\* the registry extract_vtk_folders_from_tar returns for a fault-free archive
RECURSIVE IngestFrom(_, _, _, _)
IngestFrom(a, k, ts, d) ==
    IF k > Len(a) THEN EndFlush(ts, d)[2]
    ELSE IF IsDirMember(a[k])
         THEN IngestFrom(a, k + 1, DirBranch(ts, d)[1], DirBranch(ts, d)[2])
    ELSE IF IsFrameMember(a[k])
         THEN IngestFrom(a, k + 1, FileBranch(ts, process_file(a[k], k)), d)
    ELSE IngestFrom(a, k + 1, ts, d)

Ingest(a) == IngestFrom(a, 1, <<>>, <<>>)

GenArchives == UNION {[1..n -> {DirEntry, VtiEntry}] : n \in 0..MaxGenLen}

InitGen ==
    /\ archive \in GenArchives
    /\ faultAt = NoFault /\ faultKind = "none"
    /\ pc = "gen"
    /\ pos = Len(archive)
    /\ temporal_sequence = <<>>
    /\ all_sample = Ingest(archive)
    /\ tar_open = FALSE
    /\ exc = "none"
    /\ outcome = "returned"
    /\ slicing \in BOOLEAN
    /\ generate_3D \in BOOLEAN
    /\ gen_idx = 0
    /\ file_paths = <<>>
    /\ files = <<>>
    /\ gen_outcome = "none"

NextGen ==
    \/ GenBucket
    \/ GenBucketFails
    \/ GenReturn

GenSpec == InitGen /\ [][NextGen]_vars

\* ------------------------------------------------ what the archive contains
\* member k is a file matching the frame-naming pattern whose bytes decode
IsValidFrame(k) == archive[k].isfile /\ archive[k].vti /\ archive[k].ok

ValidFrames(n) == {k \in 1..n : k <= Len(archive) /\ IsValidFrame(k)}

DirMarkers(n) == {k \in 1..n : k <= Len(archive) /\ archive[k].isdir}

SetMax(S) == CHOOSE x \in S : \A y \in S : y <= x

\* the directory marker that opens the run member k lies in (0: stream start)
RunStart(k) == SetMax({0} \cup DirMarkers(k - 1))

Ascending(S) ==
    [i \in 1..Cardinality(S) |->
        CHOOSE x \in S : Cardinality({y \in S : y < x}) = i - 1]

\* the frames of the run opened at marker s, among the first n members
RunOf(s, n) == Ascending({k \in ValidFrames(n) : RunStart(k) = s})

RunStarts(n) == {RunStart(k) : k \in ValidFrames(n)}

\* every run of the first n members that holds a frame
RunsOf(n) == {RunOf(s, n) : s \in RunStarts(n)}

\* the runs of the first n members that a directory marker among them closed
ClosedRunsOf(n) ==
    {RunOf(s, n) : s \in {t \in RunStarts(n) : \E m \in DirMarkers(n) : m > t}}

\* ------------------------------------------------ what the registry contains
Slots(d) == UNION {{<<i, j>> : j \in 1..Len(d[i].val)} : i \in 1..Len(d)}

SeqAt(d, p) == d[p[1]].val[p[2]]

StoredSeqs(d) == {SeqAt(d, p) : p \in Slots(d)}

Occurrences(d, f) ==
    Cardinality(UNION {{<<p, i>> : i \in {n \in 1..Len(SeqAt(d, p)) :
                                              SeqAt(d, p)[n] = f}} :
                       p \in Slots(d)})

RECURSIVE SumLen(_)
SumLen(ss) == IF ss = <<>> THEN 0 ELSE Len(Head(ss)) + SumLen(Tail(ss))

RECURSIVE FrameCount(_)
FrameCount(d) ==
    IF d = <<>> THEN 0 ELSE SumLen(Head(d).val) + FrameCount(Tail(d))

StrictlyIncreasing(s) == \A i \in 1..Len(s) - 1 : s[i] < s[i + 1]

\* the registry holds exactly the sequences of S, each once
RegistryHolds(d, S) ==
    /\ StoredSeqs(d) = S
    /\ Cardinality(Slots(d)) = Cardinality(S)

Processed == IF faultAt <= 0 THEN 0 ELSE faultAt - 1

\* ------------------------------------------------------------------ claims

\* C1: when the stream is read to its end without a stream-level error, the
\* frames summed over all registered sequences number exactly the members
\* that are pattern-matching files and decoded; each appears exactly once.
C1_FrameCountPreserved ==
    (pc = "done" /\ faultAt = NoFault) =>
        /\ FrameCount(all_sample) = Cardinality(ValidFrames(Len(archive)))
        /\ \A k \in ValidFrames(Len(archive)) : Occurrences(all_sample, k) = 1

C1_Witness ==
    /\ pc = "done" /\ faultAt = NoFault
    /\ Cardinality(Slots(all_sample)) >= 2
    /\ \E k \in 1..Len(archive) : archive[k] = BadEntry
    /\ Cardinality(ValidFrames(Len(archive))) >= 2

\* C2: in every state the open sequence and every registered sequence list
\* their frames in archive order, and the open sequence is exactly the
\* frames read since the last directory marker, none dropped or repeated.
C2_StreamOrderKept ==
    /\ StrictlyIncreasing(temporal_sequence)
    /\ \A s \in StoredSeqs(all_sample) : StrictlyIncreasing(s)
    /\ pc = "loop" =>
          temporal_sequence =
              Ascending({k \in ValidFrames(pos) :
                            RunStart(k) = SetMax({0} \cup DirMarkers(pos))})

C2_Witness ==
    /\ pc = "loop"
    /\ Len(temporal_sequence) >= 1
    /\ all_sample # <<>>
    /\ \E s \in StoredSeqs(all_sample) : Len(s) >= 2


\* C3: in every state, and so on every exit path, each sequence stored under
\* key L has exactly L frames, no key has two buckets, and no sequence is
\* stored in more than one place; a flush stores the open sequence once.
C3_GroupingInv ==
    /\ \A p \in Slots(all_sample) :
          Len(SeqAt(all_sample, p)) = all_sample[p[1]].key
    /\ \A i, j \in 1..Len(all_sample) :
          all_sample[i].key = all_sample[j].key => i = j
    /\ \A p, q \in Slots(all_sample) :
          SeqAt(all_sample, p) = SeqAt(all_sample, q) => p = q
    /\ \A k \in ValidFrames(Len(archive)) : Occurrences(all_sample, k) <= 1
    /\ (pc \in {"return", "done"} /\ faultKind \in {"none", "EOFError"}) =>
          \A k \in ValidFrames(pos) : Occurrences(all_sample, k) = 1

C3_Witness ==
    /\ pc = "done"
    /\ Len(all_sample) >= 2
    /\ \E i \in 1..Len(all_sample) : all_sample[i].key >= 2

\* C4: an empty sequence is never registered: the registry never has key 0
\* and never holds an empty sequence, also after an EOFError raised while
\* the open sequence was empty.
C4_NoEmptySequence ==
    /\ 0 \notin Keys(all_sample)
    /\ <<>> \notin StoredSeqs(all_sample)
    /\ \A i \in 1..Len(all_sample) : all_sample[i].val # <<>>

C4_Witness ==
    /\ pc = "done"
    /\ exc = "EOFError"
    /\ pos >= 2
    /\ archive[pos].isdir
    /\ all_sample # <<>>

\* the stream was cut after the first complete experiment: the members read
\* hold exactly one run of frames, that run has no frame past the cut, and
\* the archive goes on with a second experiment
TruncatedAfterFirst ==
    /\ faultKind = "EOFError"
    /\ faultAt >= 1
    /\ Cardinality(RunStarts(faultAt - 1)) = 1
    /\ Cardinality(RunStarts(Len(archive))) >= 2
    /\ \A s \in RunStarts(faultAt - 1) :
          RunOf(s, faultAt - 1) = RunOf(s, Len(archive))

\* C5: when the stream is truncated right after its first complete
\* experiment, the returned registry is that experiment's sequence alone.
C5_SalvageFirstExperiment ==
    (pc = "done" /\ TruncatedAfterFirst) =>
        /\ outcome = "returned"
        /\ \A s \in RunStarts(faultAt - 1) :
              all_sample =
                  << [key |-> Len(RunOf(s, Len(archive))),
                      val |-> << RunOf(s, Len(archive)) >>] >>

C5_Witness ==
    /\ pc = "done"
    /\ TruncatedAfterFirst
    /\ archive[1].isdir
    /\ archive[faultAt].isdir
    /\ Len(all_sample) = 1


\* C6: an EOFError raised at any read is not propagated; the function
\* returns the registry of every run of the members read before the error,
\* the open run included as one sequence of its own.
C6_EOFSalvage ==
    (pc = "done" /\ faultKind = "EOFError") =>
        /\ outcome = "returned"
        /\ pos = Processed
        /\ RegistryHolds(all_sample, RunsOf(Processed))
        /\ temporal_sequence = <<>>

C6_Witness ==
    /\ pc = "done"
    /\ faultKind = "EOFError"
    /\ outcome = "returned"
    /\ faultAt >= 2
    /\ IsValidFrame(faultAt - 1)
    /\ Cardinality(Slots(all_sample)) >= 2

\* C7: when tarfile.open itself fails, whatever it raises, the function
\* returns an empty registry and raises nothing.
C7_OpenFailureEmpty ==
    (pc = "done" /\ faultAt = 0) =>
        /\ outcome = "returned"
        /\ all_sample = <<>>
        /\ pos = 0

C7_Witness ==
    /\ pc = "done"
    /\ faultAt = 0
    /\ faultKind = "ReadError"
    /\ outcome = "returned"
    /\ Len(archive) >= 1

\* C8: an exception other than EOFError and ReadError, raised at any read,
\* ends the traversal there: no later member is consumed, nothing is raised,
\* and the registry returned is the one built up to the error.
C8_OtherErrorStops ==
    (pc = "done" /\ faultKind = "Exception") =>
        /\ outcome = "returned"
        /\ pos = Processed
        /\ RegistryHolds(all_sample, ClosedRunsOf(Processed))

C8_Witness ==
    /\ pc = "done"
    /\ faultKind = "Exception"
    /\ outcome = "returned"
    /\ all_sample # <<>>
    /\ temporal_sequence # <<>>
    /\ faultAt <= Len(archive)

\* C9: a member that fails to decode adds no frame anywhere, and the members
\* after it are still read: on completion the frames on either side of it,
\* with no directory marker between them, lie next to each other in one
\* sequence.
C9_DecodeFailureSkipped ==
    /\ \A f \in 0..Len(archive) :
          (f = None \/ ~IsValidFrame(f)) =>
              /\ Occurrences(all_sample, f) = 0
              /\ \A i \in 1..Len(temporal_sequence) : temporal_sequence[i] # f
    /\ (pc = "done" /\ faultAt = NoFault) =>
          /\ pos = Len(archive)
          /\ \A a, b \in ValidFrames(Len(archive)) :
                (/\ a < b
                 /\ \A m \in (a + 1)..(b - 1) : archive[m] = BadEntry) =>
                    \E p \in Slots(all_sample) :
                        \E i \in 1..Len(SeqAt(all_sample, p)) - 1 :
                            /\ SeqAt(all_sample, p)[i] = a
                            /\ SeqAt(all_sample, p)[i + 1] = b

C9_Witness ==
    /\ pc = "done"
    /\ faultAt = NoFault
    /\ \E k \in 2..Len(archive) - 1 :
          /\ archive[k] = BadEntry
          /\ IsValidFrame(k - 1)
          /\ IsValidFrame(k + 1)
          /\ \E p \in Slots(all_sample) : Len(SeqAt(all_sample, p)) = 2

\* C10: the archive handle is closed once the with block has been left, on
\* every path out of it, and is never open when tarfile.open failed.
C10_HandleClosed ==
    /\ pc \in {"after_with", "except", "return", "done"} => ~tar_open
    /\ faultAt = 0 => ~tar_open

C10_Witness ==
    /\ pc = "done"
    /\ faultKind = "ReadError"
    /\ faultAt >= 2
    /\ outcome = "returned"
    /\ ~tar_open


\* the decoded frames the program holds: the registry and the open sequence
HeldFrames == FrameCount(all_sample) + Len(temporal_sequence)

\* the frames read so far of the experiment that is still open
OpenRun == {k \in ValidFrames(pos) : RunStart(k) = SetMax({0} \cup DirMarkers(pos))}

\* C11 as claimed: at every point of a run the decoded frames held are at
\* most those of the one open experiment plus one in-flight entry.
C11_OneExperimentHeld == HeldFrames <= Len(temporal_sequence) + 1

\* C11 as amended: only the open sequence is bounded by the one open
\* experiment; members are consumed one at a time and the frames held never
\* exceed those decoded so far, but flushed sequences stay in the registry,
\* which holds every decoded frame when the generation stage begins.
C11_OpenSequenceBounded ==
    /\ Len(temporal_sequence) <= Cardinality(OpenRun)
    /\ HeldFrames <= Cardinality(ValidFrames(pos))
    /\ (pc = "gen" /\ gen_idx = 0 /\ faultKind \in {"none", "EOFError"}) =>
          FrameCount(all_sample) = Cardinality(ValidFrames(pos))

C11_Witness ==
    /\ pc = "gen"
    /\ gen_idx = 0
    /\ Len(all_sample) >= 2
    /\ FrameCount(all_sample) >= 3
    /\ FrameCount(all_sample) = Cardinality(ValidFrames(Len(archive)))


\* --------------------------------------------------- what the files contain
EnabledVariants ==
    (IF slicing THEN {"2D"} ELSE {}) \cup (IF generate_3D THEN {"3D"} ELSE {})

\* the files written for length L and variant v, by their place in the log
FilesFor(L, v) ==
    {n \in 1..Len(files) :
        files[n].path = [dir |-> "out", stem |-> [name |-> "base", len |-> L],
                         variant |-> v, ext |-> "h5"]}

\* the frames of the experiments registered under key L
FramesUnder(d, L) ==
    UNION {{SeqAt(d, p)[n] : n \in 1..Len(SeqAt(d, p))} :
              p \in {q \in Slots(d) : d[q[1]].key = L}}

ImageFrames(f) == {f.images[n].frame : n \in 1..Len(f.images)}

\* C12: a call that returns has written exactly one file per (registered
\* length, enabled variant), named base_len_<length>_<variant> (with the .h5
\* extension, in the output directory), holding the converted frames of the
\* experiments registered under that length and of no other.
C12_OneFilePerLengthAndVariant ==
    gen_outcome = "returned" =>
        /\ Len(files) = Len(all_sample) * Cardinality(EnabledVariants)
        /\ \A L \in Keys(all_sample) : \A v \in EnabledVariants :
              /\ Cardinality(FilesFor(L, v)) = 1
              /\ \A n \in FilesFor(L, v) :
                    /\ files[n].complete
                    /\ ImageFrames(files[n]) = FramesUnder(all_sample, L)
                    /\ Len(files[n].images) =
                          Cardinality(FramesUnder(all_sample, L))
                    /\ \A i \in 1..Len(files[n].images) :
                          files[n].images[i].dims = (IF v = "2D" THEN 2 ELSE 3)

C12_Witness ==
    /\ gen_outcome = "returned"
    /\ slicing /\ ~generate_3D
    /\ Keys(all_sample) = {2, 4}
    /\ Len(files) = 2

\* C13: the list a call returns holds the paths of the files written, in the
\* order in which the files were written, whatever the two flags are.
C13_PathsInWriteOrder ==
    gen_outcome = "returned" =>
        file_paths = [n \in 1..Len(files) |-> files[n].path]

\* C14: the frames stacked into a bucket's file are the bucket's sequences
\* one after the other, in registry order, each in its own frame order.
C14_FlattenOrder ==
    gen_outcome = "returned" =>
        \A n \in 1..Len(files) : \A i \in 1..Len(all_sample) :
            all_sample[i].key = files[n].path.stem.len =>
                LET L == all_sample[i].key
                    b == all_sample[i].val
                IN  /\ Len(files[n].images) = L * Len(b)
                    /\ \A j \in 1..Len(b) : \A q \in 1..L :
                          files[n].images[(j - 1) * L + q].frame = b[j][q]

C14_Witness ==
    /\ gen_outcome = "returned"
    /\ slicing
    /\ \E n \in 1..Len(files) :
          /\ files[n].path.variant = "2D"
          /\ [i \in 1..Len(files[n].images) |-> files[n].images[i].frame]
                = <<1, 2, 3, 5, 6, 7>>

\* C15 as claimed: a call on a non-empty registry writes at least one file
\* for every length bucket.
C15_AlwaysWrites ==
    gen_outcome = "returned" =>
        \A L \in Keys(all_sample) : \E v \in {"2D", "3D"} : FilesFor(L, v) # {}

\* C15 as amended: for every length bucket the 2D file is written exactly
\* when slicing is set and the 3D file exactly when generate_3D is set, each
\* independently of the other flag; with both unset nothing is written and
\* the returned list is empty.
C15_WritePathsIndependent ==
    gen_outcome = "returned" =>
        /\ \A L \in Keys(all_sample) :
              /\ FilesFor(L, "2D") # {} <=> slicing
              /\ FilesFor(L, "3D") # {} <=> generate_3D
        /\ (~slicing /\ ~generate_3D) => (files = <<>> /\ file_paths = <<>>)

C15_Witness ==
    /\ gen_outcome = "returned"
    /\ ~slicing /\ generate_3D
    /\ Len(all_sample) >= 2
    /\ Len(files) = Len(all_sample)


\* C16: within every bucket the sequences stand in discovery order: each
\* sequence's frames all precede, in the stream, those of the next one.
C16_BucketDiscoveryOrder ==
    \A i \in 1..Len(all_sample) :
        \A j \in 1..Len(all_sample[i].val) - 1 :
            LET s == all_sample[i].val[j]
                t == all_sample[i].val[j + 1]
            IN  s # <<>> /\ t # <<>> /\ s[Len(s)] < t[1]

C16_Witness ==
    /\ pc = "done"
    /\ faultAt = NoFault
    /\ \E i \in 1..Len(all_sample) : Len(all_sample[i].val) >= 2

\* C17: on normal completion the registry holds one sequence for each run of
\* members between directory markers (or the stream's ends) that has a
\* decoded frame, made of exactly that run's frames, none for a run without
\* one, and no sequence holds frames from both sides of a directory marker.
C17_RunsDelimitSequences ==
    (pc = "done" /\ faultAt = NoFault) =>
        /\ RegistryHolds(all_sample, RunsOf(Len(archive)))
        /\ \A s \in StoredSeqs(all_sample) :
              \A i, j \in 1..Len(s) : RunStart(s[i]) = RunStart(s[j])

C17_Witness ==
    /\ pc = "done"
    /\ faultAt = NoFault
    /\ \E k \in 1..Len(archive) - 1 : archive[k].isdir /\ archive[k + 1].isdir
    /\ Cardinality(Slots(all_sample)) = 2

\* the member about to be read is neither a directory marker nor a file
\* named after the frame pattern
NextIsOther ==
    /\ CanRead
    /\ ~archive[pos + 1].isdir
    /\ ~(archive[pos + 1].isfile /\ archive[pos + 1].vti)

\* C18: reading a member that is neither a directory marker nor a
\* pattern-matching file changes neither the open sequence nor the registry
\* and only moves on to the next member, so the frames read before and after
\* it are appended next to each other.
C18_OtherEntriesIgnored ==
    [][NextIsOther =>
          /\ temporal_sequence' = temporal_sequence
          /\ all_sample' = all_sample
          /\ pos' = pos + 1]_vars

C18_Witness ==
    /\ pc = "done"
    /\ faultAt = NoFault
    /\ \E k \in 2..Len(archive) - 1 :
          /\ archive[k] \in {TxtEntry, LinkEntry, VtkEntry}
          /\ <<k - 1, k + 1>> \in StoredSeqs(all_sample)

\* C19: when a write raises, the exception leaves
\* generate_datasets_from_sample_list: no list is returned, no bucket after
\* the failing one is touched, and every file written before stays complete
\* in place; only the file being written may be left incomplete.
C19_WriteFailurePropagates ==
    gen_outcome = "raised" =>
        /\ pc = "gen_done"
        /\ gen_idx < Len(all_sample)
        /\ Len(file_paths) = gen_idx * Cardinality(EnabledVariants)
        /\ \A i \in 1..gen_idx : \A v \in EnabledVariants :
              /\ Cardinality(FilesFor(all_sample[i].key, v)) = 1
              /\ \A n \in FilesFor(all_sample[i].key, v) : files[n].complete
        /\ \A i \in (gen_idx + 2)..Len(all_sample) : \A v \in {"2D", "3D"} :
              FilesFor(all_sample[i].key, v) = {}
        /\ \A n \in 1..Len(files) :
              ~files[n].complete =>
                  /\ n = Len(files)
                  /\ files[n].path.stem.len = all_sample[gen_idx + 1].key

C19_Witness ==
    /\ gen_outcome = "raised"
    /\ gen_idx >= 1
    /\ slicing /\ generate_3D
    /\ Len(files) = 2 * gen_idx + 1
    /\ files[Len(files)].complete

\* C20: when a ReadError or another exception that is not EOFError ends the
\* traversal, the registry returned is the one of the last flush: the frames
\* of the open sequence are in no bucket, the sequences flushed earlier are.
C20_OpenFramesDropped ==
    (pc = "done" /\ faultKind \in {"ReadError", "Exception"}) =>
        /\ outcome = "returned"
        /\ temporal_sequence = Ascending(OpenRun)
        /\ \A i \in 1..Len(temporal_sequence) :
              Occurrences(all_sample, temporal_sequence[i]) = 0
        /\ StoredSeqs(all_sample) = ClosedRunsOf(Processed)
        /\ FrameCount(all_sample) + Len(temporal_sequence)
              = Cardinality(ValidFrames(Processed))

C20_Witness ==
    /\ pc = "done"
    /\ faultKind = "ReadError"
    /\ outcome = "returned"
    /\ Len(temporal_sequence) >= 1
    /\ all_sample # <<>>

====
